---- MODULE Spec2Model ----
(***************************************************************************)
(* A model of pydoku.py: the Sudoku class (candidate store, peer topology, *)
(* assign_value / cull_choices propagation, validator, search stub), the   *)
(* CSV loader parse_input_file and the driver main.                        *)
(*                                                                         *)
(* Python lists are modelled as sequences (1-indexed), dicts keyed by the  *)
(* linear cell index as functions over 0..n_row*n_col-1.                   *)
(***************************************************************************)
EXTENDS Integers, Sequences, FiniteSets, TLC

VARIABLES
    pc,         \* position of main / parse_input_file
    inp_rows,   \* number of lines of the input CSV (len(inp_vals))
    inp_cols,   \* number of fields per line (the table is rectangular)
    inp,        \* the fields, row-major: -1 a non-digit token, k >= 0 the digit string of k
    clues,      \* parse_input_file's local `values` (line 262)
    ind,        \* position of the seeding loop (line 268)
    n_row,      \* Sudoku.n_row
    n_col,      \* Sudoku.n_col
    rank,       \* Sudoku.rank
    values,     \* Sudoku.values
    choices,    \* Sudoku.choices
    peers,      \* Sudoku.peers
    report,     \* the messages printed so far
    out,        \* the rows handed to the CSV writer (<<>> while no file is written)
    lastOp,     \* the last engine call the loader or main made, and its result
    nOps,       \* number of engine calls made by the engine-level driver
    stack,      \* the assign_value / cull_choices calls in progress, innermost first
    result      \* what the call that returned last returned ("none" while a call runs)

vars == <<pc, inp_rows, inp_cols, inp, clues, ind, n_row, n_col, rank,
          values, choices, peers, report, out, lastOp, nOps, stack, result>>

----------------------------------------------------------------------------
(* Bounds *)

\* largest number of rows / columns of an input table
MaxDim == 4
\* input tables with at most this many clues ...
MaxClues == 1
\* ... or with at most this many unknown cells
MaxBlanks == 1
\* longest sequence of engine calls made by the engine-level driver
MaxOps == 3
\* the engine-level driver calls on the cells MinOpCell..MaxOpCell
MinOpCell == 2
MaxOpCell == 5
\* longest sequence of top-level calls followed to their return
MaxCalls == 2
\* the assign-only caller assigns to the cells 0..MaxAssignCell
MaxAssignCell == 8

----------------------------------------------------------------------------
(* Generic helpers *)

Range(s) == {s[i] : i \in DOMAIN s}

\* the elements of a finite set of integers, ascending
RECURSIVE SortedSeq(_)
SortedSeq(S) ==
    IF S = {} THEN <<>>
    ELSE LET m == CHOOSE x \in S : \A y \in S : x <= y
         IN <<m>> \o SortedSeq(S \ {m})

\* list.remove(val): drop the first occurrence of val
ListRemove(s, val) ==
    LET i == CHOOSE k \in 1..Len(s) : s[k] = val /\ \A j \in 1..(k-1) : s[j] # val
    IN SubSeq(s, 1, i-1) \o SubSeq(s, i+1, Len(s))

\* int(sqrt(n))
ISqrt(n) == CHOOSE r \in 0..n : r*r <= n /\ (r+1)*(r+1) > n

\* sqrt(n).is_integer()
IsSquare(n) == \E r \in 0..n : r*r = n

----------------------------------------------------------------------------
(* Topology: find_row_peers, find_col_peers, find_block_peers, find_peers *)

\* range(a, b) as a list
PyRange(a, b) == [k \in 1..(b-a) |-> a + k - 1]

\* find_row_peers without row_peers.remove(ind)
FindRowPeersKeepSelf(nc, i) ==
    LET row_ind == i \div nc
    IN PyRange(row_ind * nc, (row_ind+1) * nc)

FindRowPeers(nc, i) ==
    LET row_ind == i \div nc
    IN ListRemove(PyRange(row_ind * nc, (row_ind+1) * nc), i)

FindColPeers(nr, nc, i) ==
    LET col_ind == i % nc
    IN ListRemove([r \in 1..nr |-> (r-1)*nc + col_ind], i)

FindBlockPeers(nc, rk, i) ==
    LET block_ind == ((i \div nc) \div rk) * rk + ((i % nc) \div rk)
        block_peers == [m \in 1..(rk*rk) |->
                          LET row_ind == ((m-1) \div rk) + (block_ind \div rk) * rk
                              col_ind == ((m-1) % rk) + (block_ind % rk) * rk
                          IN row_ind * nc + col_ind]
    IN ListRemove(block_peers, i)

\* find_peers that forgets the block peers
FindPeersNoBlock(nr, nc, rk, i) ==
    Range(FindColPeers(nr, nc, i) \o FindRowPeers(nc, i))

FindPeers(nr, nc, rk, i) ==
    Range(FindColPeers(nr, nc, i) \o FindRowPeers(nc, i) \o FindBlockPeers(nc, rk, i))

\* Iteration over self.peers[ind] (line 161).  CPython keeps a small int i at
\* slot i of the set's table, and the 32-slot table of a peer set is never
\* wrapped by the indices of a grid of up to 5 x 5 cells, so the peers come
\* in ascending order.
IterOrder(S) == SortedSeq(S)

\* line 166: [find_row_peers(ind), find_col_peers(ind), find_block_peers(ind)],
\* tabulated for every cell of every n x n Sudoku
PeerGroups ==
    [n \in {m \in 1..MaxDim : IsSquare(m)} |->
        [i \in 0..(n*n - 1) |->
            <<FindRowPeers(n, i), FindColPeers(n, n, i), FindBlockPeers(n, ISqrt(n), i)>>]]

----------------------------------------------------------------------------
(* Propagation engine: assign_value and cull_choices.  Each operator takes  *)
(* the candidate store and returns the call's result and the store it      *)
(* leaves behind.                                                          *)

RECURSIVE AssignValue(_, _, _), CullChoices(_, _, _), CullEach(_, _, _),
          CullPeers(_, _, _), PlugSpots(_, _, _), CullEachAny(_, _, _),
          CullPeersButLast(_, _, _), PlugSpotsNoAssign(_, _, _)

\* line 130 with any() in place of all(): stops at the first True
CullEachAny(ch, i, bad_vals) ==
    IF bad_vals = <<>> THEN [ret |-> FALSE, choices |-> ch]
    ELSE LET r == CullChoices(ch, i, Head(bad_vals))
         IN IF r.ret THEN r ELSE CullEachAny(r.choices, i, Tail(bad_vals))

\* line 130: all(self.cull_choices(ind,bad_val) for bad_val in bad_vals),
\* stopping at the first False
CullEach(ch, i, bad_vals) ==
    IF bad_vals = <<>> THEN [ret |-> TRUE, choices |-> ch]
    ELSE LET r == CullChoices(ch, i, Head(bad_vals))
         IN IF r.ret THEN CullEach(r.choices, i, Tail(bad_vals)) ELSE r

\* assign_value without the membership test of line 123: every candidate
\* other than val is culled, whether or not val is among them
AssignValueUnchecked(ch, i, val) ==
    IF Len(ch[i]) = 1 /\ ch[i][1] = val
    THEN [ret |-> TRUE, choices |-> ch]
    ELSE CullEach(ch, i, SelectSeq(ch[i], LAMBDA b : b # val))

\* assign_value taking "val is still possible" for "val is already assigned"
AssignValueLax(ch, i, val) ==
    IF val \in Range(ch[i])
    THEN [ret |-> TRUE, choices |-> ch]
    ELSE [ret |-> FALSE, choices |-> ch]

AssignValue(ch, i, val) ==
    IF Len(ch[i]) = 1 /\ ch[i][1] = val
    THEN [ret |-> TRUE, choices |-> ch]
    ELSE IF val \notin Range(ch[i])
    THEN [ret |-> FALSE, choices |-> ch]
    ELSE CullEach(ch, i, ListRemove(ch[i], val))

\* line 161 with the last peer left out of the iteration
CullPeersButLast(ch, ps, best_val) ==
    IF Len(ps) <= 1 THEN [ret |-> TRUE, choices |-> ch]
    ELSE LET r == CullChoices(ch, Head(ps), best_val)
         IN IF r.ret THEN CullPeersButLast(r.choices, Tail(ps), best_val) ELSE r

\* line 161: all(self.cull_choices(peer,best_val) for peer in self.peers[ind])
CullPeers(ch, ps, best_val) ==
    IF ps = <<>> THEN [ret |-> TRUE, choices |-> ch]
    ELSE LET r == CullChoices(ch, Head(ps), best_val)
         IN IF r.ret THEN CullPeers(r.choices, Tail(ps), best_val) ELSE r

\* lines 167-179 without the assignment of line 178: a single spot is left
\* as it is
PlugSpotsNoAssign(ch, groups, val) ==
    IF groups = <<>> THEN [ret |-> TRUE, choices |-> ch]
    ELSE LET spots == SelectSeq(Head(groups), LAMBDA spot : val \in Range(ch[spot]))
         IN IF Len(spots) = 0 THEN [ret |-> FALSE, choices |-> ch]
            ELSE PlugSpotsNoAssign(ch, Tail(groups), val)

\* lines 167-179: the loop over the row, column and block peer groups
PlugSpots(ch, groups, val) ==
    IF groups = <<>> THEN [ret |-> TRUE, choices |-> ch]
    ELSE LET spots == SelectSeq(Head(groups), LAMBDA spot : val \in Range(ch[spot]))
         IN IF Len(spots) = 0 THEN [ret |-> FALSE, choices |-> ch]
            ELSE IF Len(spots) = 1
            THEN LET r == AssignValue(ch, spots[1], val)
                 IN IF r.ret THEN PlugSpots(r.choices, Tail(groups), val) ELSE r
            ELSE PlugSpots(ch, Tail(groups), val)

\* cull_choices that eliminates a collapsed value from the row peers only
CullChoicesRowOnly(ch, i, val) ==
    IF val \notin Range(ch[i]) THEN [ret |-> TRUE, choices |-> ch]
    ELSE IF Len(ch[i]) = 1 THEN [ret |-> FALSE, choices |-> ch]
    ELSE LET ch1 == [ch EXCEPT ![i] = ListRemove(@, val)]
             r1  == IF Len(ch1[i]) = 1
                    THEN CullPeers(ch1, FindRowPeers(n_col, i), ch1[i][1])
                    ELSE [ret |-> TRUE, choices |-> ch1]
         IN IF ~r1.ret THEN r1
            ELSE PlugSpots(r1.choices, PeerGroups[n_col][i], val)

\* cull_choices eliminating val, not best_val, from the peers of a collapsed
\* cell
CullChoicesWrongVal(ch, i, val) ==
    IF val \notin Range(ch[i]) THEN [ret |-> TRUE, choices |-> ch]
    ELSE IF Len(ch[i]) = 1 THEN [ret |-> FALSE, choices |-> ch]
    ELSE LET ch1 == [ch EXCEPT ![i] = ListRemove(@, val)]
             r1  == IF Len(ch1[i]) = 1
                    THEN CullPeers(ch1, IterOrder(peers[i]), val)
                    ELSE [ret |-> TRUE, choices |-> ch1]
         IN IF ~r1.ret THEN r1
            ELSE PlugSpots(r1.choices, PeerGroups[n_col][i], val)

\* cull_choices with its two early returns in the opposite order
CullChoicesLenFirst(ch, i, val) ==
    IF Len(ch[i]) = 1 THEN [ret |-> FALSE, choices |-> ch]
    ELSE IF val \notin Range(ch[i]) THEN [ret |-> TRUE, choices |-> ch]
    ELSE LET ch1 == [ch EXCEPT ![i] = ListRemove(@, val)]
             r1  == IF Len(ch1[i]) = 1
                    THEN CullPeers(ch1, IterOrder(peers[i]), ch1[i][1])
                    ELSE [ret |-> TRUE, choices |-> ch1]
         IN IF ~r1.ret THEN r1
            ELSE PlugSpots(r1.choices, PeerGroups[n_col][i], val)

CullChoices(ch, i, val) ==
    IF val \notin Range(ch[i]) THEN [ret |-> TRUE, choices |-> ch]
    ELSE IF Len(ch[i]) = 1 THEN [ret |-> FALSE, choices |-> ch]
    ELSE LET ch1 == [ch EXCEPT ![i] = ListRemove(@, val)]
             r1  == IF Len(ch1[i]) = 1
                    THEN CullPeers(ch1, IterOrder(peers[i]), ch1[i][1])
                    ELSE [ret |-> TRUE, choices |-> ch1]
         IN IF ~r1.ret THEN r1
            ELSE PlugSpots(r1.choices, PeerGroups[n_col][i], val)

----------------------------------------------------------------------------
(* Validator: fetch_row(s), fetch_col(s), fetch_block(s), check_properties *)

\* values[start : start + n_col]
FetchRow(vals, i) == [k \in 1..n_col |-> vals[i * n_col + k - 1]]

FetchRows(vals) == [i \in 1..n_row |-> FetchRow(vals, i-1)]

FetchCol(vals, i) == [r \in 1..n_row |-> vals[(r-1) * n_col + i]]

FetchCols(vals) == [i \in 1..n_col |-> FetchCol(vals, i-1)]

\* the cell indices fetch_block(i) reads, in the order of its two loops
FetchBlockCells(i) ==
    LET base_row == (i \div rank) * rank
        base_col == (i % rank) * rank
    IN [m \in 1..(rank*rank) |->
          LET row_ind == ((m-1) \div rank) + base_row
              col_ind == ((m-1) % rank) + base_col
          IN row_ind * n_col + col_ind]

FetchBlock(vals, i) == [m \in 1..(rank*rank) |-> vals[FetchBlockCells(i)[m]]]

FetchBlocks(vals) == [i \in 1..n_col |-> FetchBlock(vals, i-1)]

\* check_properties that leaves the blocks unchecked
CheckPropertiesNoBlocks(vals) ==
    IF 0 \in Range(vals) THEN FALSE
    ELSE LET valid_set == 1..n_col
             row_status == \A i \in 1..n_row : valid_set = Range(FetchRows(vals)[i])
             col_status == \A i \in 1..n_col : valid_set = Range(FetchCols(vals)[i])
         IN row_status /\ col_status

CheckProperties(vals) ==
    IF 0 \in Range(vals) THEN FALSE
    ELSE LET valid_set == 1..n_col
             row_status == \A i \in 1..n_row : valid_set = Range(FetchRows(vals)[i])
             col_status == \A i \in 1..n_col : valid_set = Range(FetchCols(vals)[i])
             block_status == \A i \in 1..n_col : valid_set = Range(FetchBlocks(vals)[i])
         IN row_status /\ col_status /\ block_status

\* update_grid_values running over range(n_col) in place of range(n_col*n_col)
UpdateGridValuesFirstRow(vals, ch) ==
    [i \in DOMAIN vals |->
        IF i < n_col /\ Len(ch[i]) = 1 THEN ch[i][1] ELSE vals[i]]

\* update_grid_values: copy every collapsed candidate list into the grid
UpdateGridValues(vals, ch) ==
    [i \in DOMAIN vals |->
        IF i < n_col * n_col /\ Len(ch[i]) = 1 THEN ch[i][1] ELSE vals[i]]

\* solve_backtrack: the return value (the grid is not touched)
SolveBacktrack(vals) == 0 \notin Range(vals)

----------------------------------------------------------------------------
(* Loader helpers *)

\* line 262: int(val) if val.isdigit() and int(val) <= n_col else 0
ParseVal(tok, nc) == IF tok >= 0 /\ tok <= nc THEN tok ELSE 0

\* line 256: the shape test
BadFormat(nr, nc) == nr < 4 \/ nr # nc \/ ~IsSquare(nr)

\* Sudoku.__init__
FreshValues(nr, nc) == [i \in 0..(nr*nc - 1) |-> 0]
FreshChoices(nr, nc) == [i \in 0..(nr*nc - 1) |-> PyRange(1, nc + 1)]
AllPeers(nr, nc) == [i \in 0..(nr*nc - 1) |-> FindPeers(nr, nc, ISqrt(nc), i)]

NoOp == [op |-> "none", ind |-> 0, val |-> 0, ret |-> TRUE]

----------------------------------------------------------------------------
(* The input tables the model draws from *)

Cells(n) == 0..(n*n - 1)

\* a solved n x n grid: the cyclic pattern, values relabelled by the shift s
Pattern(n, s) ==
    LET rk == ISqrt(n)
    IN [i \in Cells(n) |->
          LET r == i \div n
              c == i % n
          IN ((rk * (r % rk) + (r \div rk) + c + s) % n) + 1]

\* the subsets of S with at most k elements
RECURSIVE SubsetsUpTo(_, _)
SubsetsUpTo(S, k) ==
    IF k = 0 THEN {{}}
    ELSE LET T == SubsetsUpTo(S, k - 1)
         IN T \cup {t \cup {x} : t \in T, x \in S}

\* the clue sets: few clues, few unknowns, the first k cells
ClueSets(n) ==
    SubsetsUpTo(Cells(n), MaxClues)
    \cup {Cells(n) \ B : B \in SubsetsUpTo(Cells(n), MaxBlanks)}
    \cup {0..(k-1) : k \in 0..(n*n)}

\* at most one field overwritten by an arbitrary token
Edits(n) == {<<-1, 0>>} \cup (Cells(n) \X (-1..(n+1)))

Table(n, s, K, e) ==
    [i \in Cells(n) |->
        IF e[1] = i THEN e[2]
        ELSE IF i \in K THEN Pattern(n, s)[i] ELSE 0]

\* the cells of row r, of column c, and of the block in block-row br and
\* block-column bc of an n x n grid
RowCells(n, r) == {i \in Cells(n) : i \div n = r}
ColCells(n, c) == {i \in Cells(n) : i % n = c}
BlockCells(n, br, bc) ==
    LET rk == ISqrt(n)
    IN {i \in Cells(n) : (i \div n) \div rk = br /\ (i % n) \div rk = bc}

Units(n) ==
    LET rk == ISqrt(n)
    IN {RowCells(n, r) : r \in 0..(n-1)}
       \cup {ColCells(n, c) : c \in 0..(n-1)}
       \cup {BlockCells(n, br, bc) : br \in 0..(rk-1), bc \in 0..(rk-1)}

\* g is a complete n x n grid with each of 1..n exactly once in every unit
IsSolved(n, g) ==
    /\ \A i \in Cells(n) : g[i] # 0
    /\ LET units == Units(n)
       IN \A U \in units : \A v \in 1..n :
             Cardinality({i \in U : g[i] = v}) = 1

\* two distinct cells that share a row, a column or a block
ArePeers(n, a, b) ==
    /\ a # b
    /\ \/ a \div n = b \div n
       \/ a % n = b % n
       \/ LET rk == ISqrt(n)
          IN /\ (a \div n) \div rk = (b \div n) \div rk
             /\ (a % n) \div rk = (b % n) \div rk

\* the permutations of 1..n, as rows
Perms(n) == {p \in [1..n -> 1..n] : \A i, j \in 1..n : p[i] = p[j] => i = j}

\* row p can follow the rows st of a grid: no value of p repeats in its
\* column, nor in its block among the rows of p's band
RowFits(n, st, p) ==
    \A r \in 1..Len(st) :
        /\ \A c \in 1..n : st[r][c] # p[c]
        /\ ((r - 1) \div ISqrt(n) = Len(st) \div ISqrt(n)) =>
              \A c, d \in 1..n :
                  ((c - 1) \div ISqrt(n) = (d - 1) \div ISqrt(n)) => st[r][c] # p[d]

\* the ways to fill the first k rows of a solved n x n grid
RECURSIVE Stacks(_, _)
Stacks(n, k) ==
    IF k = 0 THEN {<<>>}
    ELSE {Append(x[1], x[2]) :
            x \in {y \in Stacks(n, k - 1) \X Perms(n) : RowFits(n, y[1], y[2])}}

\* every solved n x n grid
SolvedGrids(n) ==
    {[i \in Cells(n) |-> st[(i \div n) + 1][(i % n) + 1]] : st \in Stacks(n, n)}

\* a solved grid, complete or with one cell left unknown
NearSolved(n) ==
    SolvedGrids(n) \cup {[g EXCEPT ![u] = 0] : g \in SolvedGrids(n), u \in Cells(n)}

Tables(nr, nc) ==
    IF BadFormat(nr, nc)
    THEN {[i \in 0..(nr*nc - 1) |-> 0]}
    ELSE {Table(nr, 0, K, e) : K \in ClueSets(nr), e \in Edits(nr)}
         \cup NearSolved(nr)

\* the shapes the loader accepts
ValidDims == {n \in 0..MaxDim : ~BadFormat(n, n)}

----------------------------------------------------------------------------
(* main and parse_input_file *)

Init ==
    /\ pc = "parse"
    /\ inp_rows \in 0..MaxDim
    /\ inp_cols \in 0..MaxDim
    /\ inp_rows = 0 => inp_cols = 0
    /\ inp \in Tables(inp_rows, inp_cols)
    /\ clues = <<>>
    /\ ind = 0
    /\ n_row = 0
    /\ n_col = 0
    /\ rank = 0
    /\ values = <<>>
    /\ choices = <<>>
    /\ peers = <<>>
    /\ report = <<>>
    /\ out = <<>>
    /\ lastOp = NoOp
    /\ nOps = 0
    /\ stack = <<>>
    /\ result = "none"

\* lines 241-249: the file cannot be opened
ReadFail ==
    /\ pc = "parse"
    /\ pc' = "noinst"
    /\ report' = Append(report, "nofile")
    /\ UNCHANGED <<inp_rows, inp_cols, inp, clues, ind, n_row, n_col, rank,
                   values, choices, peers, out, lastOp, nOps, stack, result>>

\* lines 251-265: dimensions, shape test, digit conversion, construction
ParseShape ==
    /\ pc = "parse"
    /\ IF inp_rows < 2
       THEN \* inp_vals[1] raises IndexError, which nothing catches
            /\ pc' = "crash"
            /\ UNCHANGED <<clues, ind, n_row, n_col, rank, values, choices, peers, report>>
       ELSE IF BadFormat(inp_rows, inp_cols)
       THEN /\ pc' = "noinst"
            /\ report' = Append(report, "format")
            /\ UNCHANGED <<clues, ind, n_row, n_col, rank, values, choices, peers>>
       ELSE /\ pc' = "seed"
            /\ clues' = [i \in DOMAIN inp |-> ParseVal(inp[i], inp_cols)]
            /\ n_row' = inp_rows
            /\ n_col' = inp_cols
            /\ rank' = ISqrt(inp_cols)
            /\ values' = FreshValues(inp_rows, inp_cols)
            /\ choices' = FreshChoices(inp_rows, inp_cols)
            /\ peers' = AllPeers(inp_rows, inp_cols)
            /\ ind' = 0
            /\ UNCHANGED report
    /\ UNCHANGED <<inp_rows, inp_cols, inp, out, lastOp, nOps, stack, result>>

\* lines 268-273: one iteration of the seeding loop
SeedClue ==
    /\ pc = "seed"
    /\ ind < n_row * n_col
    /\ LET val == clues[ind]
           r == AssignValue(choices, ind, val)
       IN IF val # 0
          THEN /\ values' = [values EXCEPT ![ind] = val]
               /\ choices' = r.choices
               /\ lastOp' = [op |-> "assign", ind |-> ind, val |-> val, ret |-> r.ret]
                          /\ IF r.ret
                  THEN /\ ind' = ind + 1
                       /\ UNCHANGED <<pc, report>>
                  ELSE /\ pc' = "noinst"
                       /\ report' = Append(report, "conflict")
                       /\ UNCHANGED ind
          ELSE /\ ind' = ind + 1
               /\ UNCHANGED <<pc, values, choices, report, lastOp>>
    /\ UNCHANGED <<inp_rows, inp_cols, inp, clues, n_row, n_col, rank, peers, out, nOps, stack, result>>

\* line 275, then main line 323: the loader returns the puzzle and main
\* reads the collapsed candidates back into the grid
SeedReturn ==
    /\ pc = "seed"
    /\ ind = n_row * n_col
    /\ values' = UpdateGridValues(values, choices)
    /\ pc' = "check"
    /\ UNCHANGED <<inp_rows, inp_cols, inp, clues, ind, n_row, n_col, rank,
                   choices, peers, report, out, lastOp, nOps, stack, result>>

\* main lines 314-316: the loader returned None
NoSudoku ==
    /\ pc = "noinst"
    /\ pc' = "exit"
    /\ report' = Append(report, "noinstance")
    /\ UNCHANGED <<inp_rows, inp_cols, inp, clues, ind, n_row, n_col, rank,
                   values, choices, peers, out, lastOp, nOps, stack, result>>

\* main lines 327-328: run the solver unless propagation already solved it
CheckAndSolve ==
    /\ pc = "check"
    /\ IF ~CheckProperties(values)
       THEN /\ lastOp' = [op |-> "solve", ind |-> 0, val |-> 0, ret |-> SolveBacktrack(values)]
            /\ report' = IF SolveBacktrack(values) THEN Append(report, "nomissing") ELSE report
       ELSE UNCHANGED <<lastOp, report>>
    /\ pc' = "final"
    /\ UNCHANGED <<inp_rows, inp_cols, inp, clues, ind, n_row, n_col, rank,
                   values, choices, peers, out, nOps, stack, result>>

\* main lines 333-335: the grid is not a solution
ReportFailure ==
    /\ pc = "final"
    /\ ~CheckProperties(values)
    /\ report' = Append(report, "nosolution")
    /\ pc' = "exit"
    /\ UNCHANGED <<inp_rows, inp_cols, inp, clues, ind, n_row, n_col, rank,
                   values, choices, peers, out, lastOp, nOps, stack, result>>

\* main writing the grid without looking at check_properties
WriteOutputUnchecked ==
    /\ pc = "final"
    /\ \E io_ok \in BOOLEAN :
         IF io_ok
         THEN /\ out' = [row \in 1..n_row |-> FetchRow(values, row - 1)]
              /\ report' = Append(report, "completed")
         ELSE /\ out' = out
              /\ report' = report \o <<"cannotsave", "completed">>
    /\ pc' = "exit"
    /\ UNCHANGED <<inp_rows, inp_cols, inp, clues, ind, n_row, n_col, rank,
                   values, choices, peers, lastOp, nOps, stack, result>>

\* main lines 337-344 and write_output_file: the rows are written, unless
\* the output file cannot be created
WriteOutput ==
    /\ pc = "final"
    /\ CheckProperties(values)
    /\ \E io_ok \in BOOLEAN :
         IF io_ok
         THEN /\ out' = [row \in 1..n_row |-> FetchRow(values, row - 1)]
              /\ report' = Append(report, "completed")
         ELSE /\ out' = out
              /\ report' = report \o <<"cannotsave", "completed">>
    /\ pc' = "exit"
    /\ UNCHANGED <<inp_rows, inp_cols, inp, clues, ind, n_row, n_col, rank,
                   values, choices, peers, lastOp, nOps, stack, result>>

Next ==
    \/ ReadFail
    \/ ParseShape
    \/ SeedClue
    \/ SeedReturn
    \/ NoSudoku
    \/ CheckAndSolve
    \/ ReportFailure
    \/ WriteOutput

Spec == Init /\ [][Next]_vars

----------------------------------------------------------------------------
(* main on inputs that have a solution: the table is a solved grid with    *)
(* some of its cells left unknown                                          *)

\* the cells that carry a clue: the first k cells, or the cells of one
\* colour of the checkerboard
ClueShapes(n) ==
    {0..(k - 1) : k \in 0..(n*n)}
    \cup {{i \in Cells(n) : ((i \div n) + (i % n)) % 2 = p} : p \in 0..1}

SolvableTables(n) ==
    {[i \in Cells(n) |-> IF i \in K THEN S[i] ELSE 0] :
        S \in SolvedGrids(n), K \in ClueShapes(n)}

InitSolvable ==
    /\ pc = "parse"
    /\ inp_rows \in ValidDims
    /\ inp_cols = inp_rows
    /\ inp \in SolvableTables(inp_rows)
    /\ clues = <<>>
    /\ ind = 0
    /\ n_row = 0
    /\ n_col = 0
    /\ rank = 0
    /\ values = <<>>
    /\ choices = <<>>
    /\ peers = <<>>
    /\ report = <<>>
    /\ out = <<>>
    /\ lastOp = NoOp
    /\ nOps = 0
    /\ stack = <<>>
    /\ result = "none"

SpecSolvable == InitSolvable /\ [][Next]_vars

----------------------------------------------------------------------------
(* The engine on its own: a caller makes assign_value / cull_choices calls *)
(* on a freshly constructed Sudoku.                                        *)

OpCells == MinOpCell..MaxOpCell

InitOps ==
    /\ pc = "engine"
    /\ inp_rows = 0
    /\ inp_cols = 0
    /\ inp = <<>>
    /\ clues = <<>>
    /\ ind = 0
    /\ n_row \in ValidDims
    /\ n_col = n_row
    /\ rank = ISqrt(n_col)
    /\ values = FreshValues(n_row, n_col)
    /\ choices = FreshChoices(n_row, n_col)
    /\ peers = AllPeers(n_row, n_col)
    /\ report = <<>>
    /\ out = <<>>
    /\ lastOp = NoOp
    /\ nOps = 0
    /\ stack = <<>>
    /\ result = "none"

OpAssign ==
    /\ pc = "engine"
    /\ nOps < MaxOps
    /\ \E c \in OpCells, v \in 1..n_col :
         LET r == AssignValue(choices, c, v)
         IN choices' = r.choices
    /\ nOps' = nOps + 1
    /\ UNCHANGED <<pc, inp_rows, inp_cols, inp, clues, ind, n_row, n_col, rank,
                   values, peers, report, out, lastOp, stack, result>>

OpCull ==
    /\ pc = "engine"
    /\ nOps < MaxOps
    /\ \E c \in OpCells, v \in 1..n_col :
         LET r == CullChoices(choices, c, v)
         IN choices' = r.choices
    /\ nOps' = nOps + 1
    /\ UNCHANGED <<pc, inp_rows, inp_cols, inp, clues, ind, n_row, n_col, rank,
                   values, peers, report, out, lastOp, stack, result>>

NextOps == OpAssign \/ OpCull

SpecOps == InitOps /\ [][NextOps]_vars

----------------------------------------------------------------------------
(* The engine step by step.  The calls in progress are a stack of frames,  *)
(* innermost first; a step runs the innermost call from where it stands to *)
(* its next call or to its return, so that every removal of a candidate is *)
(* a state of its own.                                                     *)

\* the number of candidates of the cells 0..k
RECURSIVE TotalUpTo(_, _)
TotalUpTo(ch, k) ==
    IF k < 0 THEN 0 ELSE Len(ch[k]) + TotalUpTo(ch, k - 1)

\* the number of candidates in the store
Total(ch) == TotalUpTo(ch, Cardinality(DOMAIN ch) - 1)

\* the frame of a call that has just been made: its arguments, where it
\* stands, what is left of the iterator of its loop (bad_vals of line 130,
\* self.peers[ind] of line 161, peers of line 167) and best_val; tot is
\* bookkeeping, the number of candidates in the store when the call was made
Frame(fn, i, val) ==
    [fn |-> fn, ind |-> i, val |-> val, at |-> "enter",
     bad_vals |-> <<>>, best_val |-> 0, peer_it |-> <<>>, groups |-> <<>>,
     tot |-> Total(choices)]

\* the innermost call returns b to its caller
Return(b) ==
    /\ stack' = Tail(stack)
    /\ result' = b

\* the innermost call goes on as frame f
Goto(f) ==
    /\ stack' = <<f>> \o Tail(stack)
    /\ result' = "none"

\* the innermost call goes on as frame f and calls fn(i, val)
Call(f, fn, i, val) ==
    /\ stack' = <<Frame(fn, i, val), f>> \o Tail(stack)
    /\ result' = "none"

\* the top-level caller calls assign_value on an idle engine
CallAssign ==
    /\ pc = "steps"
    /\ stack = <<>>
    /\ nOps < MaxOps
    /\ \E c \in OpCells, v \in 1..n_col :
         stack' = <<Frame("assign_value", c, v)>>
    /\ result' = "none"
    /\ nOps' = nOps + 1
    /\ UNCHANGED <<pc, inp_rows, inp_cols, inp, clues, ind, n_row, n_col, rank,
                   values, choices, peers, report, out, lastOp>>

\* the top-level caller calls cull_choices on an idle engine
CallCull ==
    /\ pc = "steps"
    /\ stack = <<>>
    /\ nOps < MaxOps
    /\ \E c \in OpCells, v \in 1..n_col :
         stack' = <<Frame("cull_choices", c, v)>>
    /\ result' = "none"
    /\ nOps' = nOps + 1
    /\ UNCHANGED <<pc, inp_rows, inp_cols, inp, clues, ind, n_row, n_col, rank,
                   values, choices, peers, report, out, lastOp>>

\* assign_value, lines 117-127: the early returns and the copy bad_vals
AssignEnter ==
    /\ stack # <<>>
    /\ LET top == Head(stack)
       IN /\ top.fn = "assign_value"
          /\ top.at = "enter"
          /\ IF Len(choices[top.ind]) = 1 /\ choices[top.ind][1] = top.val
             THEN Return("True")
             ELSE IF top.val \notin Range(choices[top.ind])
             THEN Return("False")
             ELSE Goto([top EXCEPT !.at = "bad_vals",
                                   !.bad_vals = ListRemove(choices[top.ind], top.val)])
    /\ UNCHANGED <<pc, inp_rows, inp_cols, inp, clues, ind, n_row, n_col, rank,
                   values, choices, peers, report, out, lastOp, nOps>>

\* assign_value, lines 130-133: all(...) takes the result of the last
\* cull_choices call, stops on False, and makes the next call
AssignLoop ==
    /\ stack # <<>>
    /\ LET top == Head(stack)
       IN /\ top.fn = "assign_value"
          /\ top.at = "bad_vals"
          /\ IF result = "False"
             THEN Return("False")
             ELSE IF top.bad_vals = <<>>
             THEN Return("True")
             ELSE Call([top EXCEPT !.bad_vals = Tail(@)],
                       "cull_choices", top.ind, Head(top.bad_vals))
    /\ UNCHANGED <<pc, inp_rows, inp_cols, inp, clues, ind, n_row, n_col, rank,
                   values, choices, peers, report, out, lastOp, nOps>>

\* cull_choices, lines 147-160, removing a cell's sole candidate as well
CullEnterNoGuard ==
    /\ stack # <<>>
    /\ LET top == Head(stack)
       IN /\ top.fn = "cull_choices"
          /\ top.at = "enter"
          /\ IF top.val \notin Range(choices[top.ind])
             THEN Return("True") /\ UNCHANGED choices
             ELSE LET ch1 == [choices EXCEPT ![top.ind] = ListRemove(@, top.val)]
                  IN /\ choices' = ch1
                     /\ IF Len(ch1[top.ind]) = 1
                        THEN Goto([top EXCEPT !.at = "peers",
                                              !.best_val = ch1[top.ind][1],
                                              !.peer_it = IterOrder(peers[top.ind])])
                        ELSE Goto([top EXCEPT !.at = "groups",
                                              !.groups = PeerGroups[n_col][top.ind]])
    /\ UNCHANGED <<pc, inp_rows, inp_cols, inp, clues, ind, n_row, n_col, rank,
                   values, peers, report, out, lastOp, nOps>>

\* cull_choices, lines 147-160, without the removal of line 156
CullEnterNoRemove ==
    /\ stack # <<>>
    /\ LET top == Head(stack)
       IN /\ top.fn = "cull_choices"
          /\ top.at = "enter"
          /\ IF top.val \notin Range(choices[top.ind])
             THEN Return("True")
             ELSE IF Len(choices[top.ind]) = 1
             THEN Return("False")
             ELSE IF Len(choices[top.ind]) = 1
                  THEN Goto([top EXCEPT !.at = "peers",
                                        !.best_val = choices[top.ind][1],
                                        !.peer_it = IterOrder(peers[top.ind])])
                  ELSE Goto([top EXCEPT !.at = "groups",
                                        !.groups = PeerGroups[n_col][top.ind]])
    /\ UNCHANGED <<pc, inp_rows, inp_cols, inp, clues, ind, n_row, n_col, rank,
                   values, choices, peers, report, out, lastOp, nOps>>

\* cull_choices, lines 147-160: the early returns, the removal, and where
\* the call goes on
CullEnter ==
    /\ stack # <<>>
    /\ LET top == Head(stack)
       IN /\ top.fn = "cull_choices"
          /\ top.at = "enter"
          /\ IF top.val \notin Range(choices[top.ind])
             THEN Return("True") /\ UNCHANGED choices
             ELSE IF Len(choices[top.ind]) = 1
             THEN Return("False") /\ UNCHANGED choices
             ELSE LET ch1 == [choices EXCEPT ![top.ind] = ListRemove(@, top.val)]
                  IN /\ choices' = ch1
                     /\ IF Len(ch1[top.ind]) = 1
                        THEN Goto([top EXCEPT !.at = "peers",
                                              !.best_val = ch1[top.ind][1],
                                              !.peer_it = IterOrder(peers[top.ind])])
                        ELSE Goto([top EXCEPT !.at = "groups",
                                              !.groups = PeerGroups[n_col][top.ind]])
    /\ UNCHANGED <<pc, inp_rows, inp_cols, inp, clues, ind, n_row, n_col, rank,
                   values, peers, report, out, lastOp, nOps>>

\* cull_choices, lines 161-162, putting val back when a peer refuses
CullPeersLoopRestore ==
    /\ stack # <<>>
    /\ LET top == Head(stack)
       IN /\ top.fn = "cull_choices"
          /\ top.at = "peers"
          /\ IF result = "False"
             THEN /\ Return("False")
                  /\ choices' = [choices EXCEPT ![top.ind] = Append(@, top.val)]
             ELSE /\ UNCHANGED choices
                  /\ IF top.peer_it = <<>>
                     THEN Goto([top EXCEPT !.at = "groups",
                                           !.groups = PeerGroups[n_col][top.ind]])
                     ELSE Call([top EXCEPT !.peer_it = Tail(@)],
                               "cull_choices", Head(top.peer_it), top.best_val)
    /\ UNCHANGED <<pc, inp_rows, inp_cols, inp, clues, ind, n_row, n_col, rank,
                   values, peers, report, out, lastOp, nOps>>

\* cull_choices, lines 161-162: all(...) takes the result of the last call
\* on a peer, stops on False, and makes the next call
CullPeersLoop ==
    /\ stack # <<>>
    /\ LET top == Head(stack)
       IN /\ top.fn = "cull_choices"
          /\ top.at = "peers"
          /\ IF result = "False"
             THEN Return("False")
             ELSE IF top.peer_it = <<>>
             THEN Goto([top EXCEPT !.at = "groups",
                                   !.groups = PeerGroups[n_col][top.ind]])
             ELSE Call([top EXCEPT !.peer_it = Tail(@)],
                       "cull_choices", Head(top.peer_it), top.best_val)
    /\ UNCHANGED <<pc, inp_rows, inp_cols, inp, clues, ind, n_row, n_col, rank,
                   values, choices, peers, report, out, lastOp, nOps>>

\* cull_choices, lines 166-182: the result of the last assign_value call,
\* then the next peer group: no spot fails, one spot is assigned
CullGroupsLoop ==
    /\ stack # <<>>
    /\ LET top == Head(stack)
       IN /\ top.fn = "cull_choices"
          /\ top.at = "groups"
          /\ IF result = "False"
             THEN Return("False")
             ELSE IF top.groups = <<>>
             THEN Return("True")
             ELSE LET spots == SelectSeq(Head(top.groups),
                                         LAMBDA spot : top.val \in Range(choices[spot]))
                  IN IF Len(spots) = 0
                     THEN Return("False")
                     ELSE IF Len(spots) = 1
                     THEN Call([top EXCEPT !.groups = Tail(@)],
                               "assign_value", spots[1], top.val)
                     ELSE Goto([top EXCEPT !.groups = Tail(@)])
    /\ UNCHANGED <<pc, inp_rows, inp_cols, inp, clues, ind, n_row, n_col, rank,
                   values, choices, peers, report, out, lastOp, nOps>>

InitStep ==
    /\ pc = "steps"
    /\ inp_rows = 0
    /\ inp_cols = 0
    /\ inp = <<>>
    /\ clues = <<>>
    /\ ind = 0
    /\ n_row \in ValidDims
    /\ n_col = n_row
    /\ rank = ISqrt(n_col)
    /\ values = FreshValues(n_row, n_col)
    /\ choices = FreshChoices(n_row, n_col)
    /\ peers = AllPeers(n_row, n_col)
    /\ report = <<>>
    /\ out = <<>>
    /\ lastOp = NoOp
    /\ nOps = 0
    /\ stack = <<>>
    /\ result = "none"

\* the interpreter runs the innermost call
Step ==
    \/ AssignEnter
    \/ AssignLoop
    \/ CullEnter
    \/ CullPeersLoop
    \/ CullGroupsLoop

NextStep ==
    \/ CallAssign
    \/ CallCull
    \/ Step

SpecStep == InitStep /\ [][NextStep]_vars

\* a call in progress is run on: the interpreter does not stop inside one;
\* the caller makes at most MaxCalls calls
SpecStepFair ==
    InitStep /\ [][NextStep /\ nOps' <= MaxCalls]_vars /\ WF_vars(Step)

----------------------------------------------------------------------------
(* assign_value on its own: a caller assigns values to cells of a freshly  *)
(* constructed Sudoku, in any order, and gives up at the first refusal, as *)
(* the seeding loop of parse_input_file does.                              *)

AssignCells == 0..MaxAssignCell

InitAssign ==
    /\ pc = "assigning"
    /\ inp_rows = 0
    /\ inp_cols = 0
    /\ inp = <<>>
    /\ clues = <<>>
    /\ ind = 0
    /\ n_row \in ValidDims
    /\ n_col = n_row
    /\ rank = ISqrt(n_col)
    /\ values = FreshValues(n_row, n_col)
    /\ choices = FreshChoices(n_row, n_col)
    /\ peers = AllPeers(n_row, n_col)
    /\ report = <<>>
    /\ out = <<>>
    /\ lastOp = NoOp
    /\ nOps = 0
    /\ stack = <<>>
    /\ result = "none"

AssignAny ==
    /\ pc = "assigning"
    /\ \E c \in AssignCells, v \in 1..n_col :
         LET r == AssignValue(choices, c, v)
         IN /\ choices' = r.choices
            /\ pc' = IF r.ret THEN "assigning" ELSE "refused"
    /\ UNCHANGED <<inp_rows, inp_cols, inp, clues, ind, n_row, n_col, rank,
                   values, peers, report, out, lastOp, nOps, stack, result>>

NextAssign == AssignAny

SpecAssign == InitAssign /\ [][NextAssign]_vars

----------------------------------------------------------------------------
(* The validator on its own: check_properties on a grid of any origin *)

\* the grid whose row r is 1..n rotated by sh[r], transposed when t
RowShifted(n, sh, t) ==
    [i \in Cells(n) |->
        LET r == IF t THEN i % n ELSE i \div n
            c == IF t THEN i \div n ELSE i % n
        IN ((c + sh[r]) % n) + 1]

\* at most one cell overwritten by any of 0..n+1
Overwrites(n) == {<<-1, 0>>} \cup (Cells(n) \X (0..(n+1)))

\* the rotated-row grids, and the solved grids with at most one overwrite
Grids(n) ==
    {RowShifted(n, sh, t) : sh \in [0..(n-1) -> 0..(n-1)], t \in BOOLEAN}
    \cup {[i \in Cells(n) |-> IF e[1] = i THEN e[2] ELSE g[i]] :
            g \in SolvedGrids(n), e \in Overwrites(n)}

InitCheck ==
    /\ pc = "validate"
    /\ inp_rows = 0
    /\ inp_cols = 0
    /\ inp = <<>>
    /\ clues = <<>>
    /\ ind = 0
    /\ n_row \in ValidDims
    /\ n_col = n_row
    /\ rank = ISqrt(n_col)
    /\ values \in Grids(n_row)
    /\ choices = FreshChoices(n_row, n_col)
    /\ peers = AllPeers(n_row, n_col)
    /\ report = <<>>
    /\ out = <<>>
    /\ lastOp = NoOp
    /\ nOps = 0
    /\ stack = <<>>
    /\ result = "none"

Validate ==
    /\ pc = "validate"
    /\ pc' = "validated"
    /\ lastOp' = [op |-> "check", ind |-> 0, val |-> 0, ret |-> CheckProperties(values)]
    /\ UNCHANGED <<inp_rows, inp_cols, inp, clues, ind, n_row, n_col, rank,
                   values, choices, peers, report, out, nOps, stack, result>>

NextCheck == Validate

SpecCheck == InitCheck /\ [][NextCheck]_vars

----------------------------------------------------------------------------
(* Properties *)

Reported(m) == m \in Range(report)

\* the loader went through every clue and none was refused
SeedingSucceeded ==
    /\ clues # <<>>
    /\ ind = n_row * n_col
    /\ ~Reported("conflict")
    /\ \A i \in DOMAIN clues : clues[i] # 0 => choices[i] = <<clues[i]>>

\* the clues put one value on cell b and on a peer of b that comes before it
ClueConflictAt(b) ==
    /\ clues[b] # 0
    /\ \E a \in DOMAIN clues :
          a < b /\ clues[a] = clues[b] /\ ArePeers(n_col, a, b)

\* C1: when the clues put the same value v in 1..N on two peer cells, seeding
\* fails: the loop never gets past the later of the two cells, an
\* assign_value call returns False, a conflict is reported, the loader
\* returns no puzzle and nothing is written, whatever the other clues are.
C1_ConflictDetection ==
    \A b \in DOMAIN clues :
        ClueConflictAt(b) =>
            /\ pc \in {"seed", "noinst", "exit"}
            /\ ind <= b
            /\ pc # "seed" => (Reported("conflict") /\ lastOp.op = "assign" /\ ~lastOp.ret)
            /\ out = <<>>

C1_Witness ==
    /\ pc = "exit"
    /\ Reported("conflict")
    /\ \E b \in DOMAIN clues : ClueConflictAt(b) /\ ind <= b
    /\ Cardinality({i \in DOMAIN clues : clues[i] # 0}) > 2

\* C2: write_output_file is reached only after seeding succeeded and with a
\* grid on which check_properties is true, the rows written are that grid's;
\* after a failed parse or a failed solve no output is written.
C2_OnlyValidatedOutput ==
    /\ (Reported("completed") \/ out # <<>>) =>
          /\ SeedingSucceeded
          /\ CheckProperties(values)
          /\ out # <<>> => out = [row \in 1..n_row |-> FetchRow(values, row - 1)]
    /\ (pc = "crash" \/ Reported("nofile") \/ Reported("format")
          \/ Reported("conflict") \/ Reported("noinstance") \/ Reported("nosolution")) =>
          (out = <<>> /\ ~Reported("completed"))

C2_Witness ==
    /\ pc = "exit"
    /\ out # <<>>
    /\ \E i \in DOMAIN clues : clues[i] = 0

\* C3 as stated: in every reachable candidate store, for every cell and every
\* value, a second assign_value(cell, v) leaves the store as the first call
\* left it, whether or not the first call succeeded.
C3_AssignTwiceAlways ==
    \A c \in DOMAIN choices : \A v \in 1..n_col :
        LET r1 == AssignValue(choices, c, v)
        IN AssignValue(r1.choices, c, v).choices = r1.choices

\* C3 amended: in every reachable candidate store, for every cell and every
\* value, when assign_value(cell, v) returns success a second
\* assign_value(cell, v) succeeds and leaves the store as the first call left it.
C3_AssignTwiceAfterSuccess ==
    \A c \in DOMAIN choices : \A v \in 1..n_col :
        LET r1 == AssignValue(choices, c, v)
        IN r1.ret => AssignValue(r1.choices, c, v) = r1

C3_Witness ==
    /\ nOps > 0
    /\ \E c \in DOMAIN choices : \E v \in 1..n_col :
          LET r1 == AssignValue(choices, c, v)
          IN r1.ret /\ r1.choices # choices /\ r1.choices[c] = <<v>>

\* C4: in every reachable candidate store, cull_choices(cell, v) with v not
\* among cell's candidates returns success and leaves every candidate list
\* as it was.
C4_CullAbsentIsNoOp ==
    \A c \in DOMAIN choices : \A v \in 1..n_col :
        v \notin Range(choices[c]) =>
            CullChoices(choices, c, v) = [ret |-> TRUE, choices |-> choices]

C4_Witness ==
    /\ nOps > 0
    /\ \E c \in DOMAIN choices : \E v \in 1..n_col :
          /\ v \notin Range(choices[c])
          /\ Len(choices[c]) = 1
          /\ CullChoices(choices, c, v).ret

\* the clues agree with a solved grid
HasSolution(cl) ==
    \E s \in 0..(n_col - 1) :
        \A i \in DOMAIN cl : cl[i] = 0 \/ cl[i] = Pattern(n_col, s)[i]

\* C5: for clues that have a solution and seed without conflict but leave a
\* cell undetermined, solve_backtrack returns solved with every cell filled
\* and the grid passing check_properties.
C5_SearchCompleteness ==
    (/\ pc \in {"final", "exit"}
     /\ lastOp.op = "solve"
     /\ HasSolution(clues)
     /\ \E i \in DOMAIN choices : Len(choices[i]) > 1)
    => (lastOp.ret /\ 0 \notin Range(values) /\ CheckProperties(values))

\* the clues are a solved grid with cell u alone left unknown, v its value
OneUnknown(u, v) ==
    /\ clues[u] = 0
    /\ \A i \in DOMAIN clues : i # u => clues[i] # 0
    /\ \A i \in DOMAIN clues : ArePeers(n_col, i, u) => clues[i] # v
    /\ IsSolved(n_col, [clues EXCEPT ![u] = v])

\* C6: when the clues are a solved grid with exactly one cell unknown, no
\* seeding call fails, seeding ends with the unknown cell's candidates being
\* exactly the missing value, and after update_grid_values the grid is the
\* solved grid and passes check_properties, solve_backtrack never being run.
C6_ForcedCellResolved ==
    \A u \in DOMAIN clues : \A v \in 1..n_col :
        OneUnknown(u, v) =>
            /\ pc \in {"seed", "check", "final", "exit"}
            /\ ~Reported("conflict")
            /\ lastOp.op # "solve"
            /\ (pc # "seed" \/ ind = n_row * n_col) => choices[u] = <<v>>
            /\ pc # "seed" =>
                  /\ values = [clues EXCEPT ![u] = v]
                  /\ CheckProperties(values)
            /\ pc = "exit" => Reported("completed")

C6_Witness ==
    /\ pc = "exit"
    /\ \E u \in DOMAIN clues : \E v \in 1..n_col :
          OneUnknown(u, v) /\ values[u] = v /\ Reported("completed")

\* C7: when the clues are a complete grid satisfying row, column and block
\* uniqueness, every seeding assign_value call succeeds, every cell seeded
\* is fixed to its clue, and once seeding is over no cell is undetermined
\* and check_properties is true of the grid.
C7_SolvedInputAccepted ==
    (clues # <<>> /\ IsSolved(n_col, clues)) =>
        /\ pc \in {"seed", "check", "final", "exit"}
        /\ ~Reported("conflict")
        /\ lastOp.ret /\ lastOp.op # "solve"
        /\ \A i \in DOMAIN clues : i < ind => choices[i] = <<clues[i]>>
        /\ pc # "seed" =>
              /\ \A i \in DOMAIN choices : Len(choices[i]) = 1
              /\ values = clues
              /\ CheckProperties(values)

C7_Witness ==
    /\ pc = "exit"
    /\ clues # <<>>
    /\ IsSolved(n_col, clues)
    /\ Reported("completed")

\* fetch_blocks visits every block once, each with the cells of a block
\* peer group
BlocksEnumerated ==
    /\ \A i, j \in 0..(n_col - 1) :
          i # j => Range(FetchBlockCells(i)) \cap Range(FetchBlockCells(j)) = {}
    /\ \A i \in 0..(n_col - 1) : \A c \in Range(FetchBlockCells(i)) :
          Range(FetchBlockCells(i)) = Range(FindBlockPeers(n_col, rank, c)) \cup {c}
    /\ UNION {Range(FetchBlockCells(i)) : i \in 0..(n_col - 1)} = Cells(n_col)

\* C8: for every grid of values, check_properties is true exactly when no
\* cell is 0 and every row, column and block holds each of 1..N once; and
\* fetch_blocks enumerates each block once, with the block peer groups' cells.
C8_ValidatorCorrect ==
    /\ pc = "validated" => (lastOp.ret <=> IsSolved(n_col, values))
    /\ BlocksEnumerated

C8_Witness ==
    /\ pc = "validated"
    /\ lastOp.ret
    /\ IsSolved(n_col, values)

\* the shapes the loader is to reject
ShapeToReject == inp_rows # inp_cols \/ inp_rows < 2 \/ ~IsSquare(inp_rows)

\* C9: a table whose row count differs from its column count, is below 2 or
\* is not a perfect square is rejected: the loader reports the error and
\* returns no puzzle, and no Sudoku is constructed or seeded.
C9_ShapeRejection ==
    (pc # "parse" /\ ~Reported("nofile") /\ ShapeToReject) =>
        /\ pc \in {"noinst", "exit"}
        /\ Reported("format")
        /\ choices = <<>> /\ peers = <<>> /\ lastOp = NoOp

\* the peer map of the constructed Sudoku
PeersOk ==
    \A a \in DOMAIN peers :
        /\ a \notin peers[a]
        /\ Range(FindRowPeers(n_col, a)) = RowCells(n_col, a \div n_col) \ {a}
        /\ Range(FindColPeers(n_row, n_col, a)) = ColCells(n_col, a % n_col) \ {a}
        /\ Range(FindBlockPeers(n_col, rank, a)) =
              BlockCells(n_col, (a \div n_col) \div rank, (a % n_col) \div rank) \ {a}
        /\ peers[a] = Range(FindRowPeers(n_col, a)) \cup Range(FindColPeers(n_row, n_col, a))
                        \cup Range(FindBlockPeers(n_col, rank, a))
        /\ \A b \in DOMAIN peers :
              /\ b \in peers[a] <=> a \in peers[b]
              /\ b \in peers[a] <=> ArePeers(n_col, a, b)

\* C10: a cell is never its own peer, the peer relation is symmetric,
\* peers[a] is the union of a's row, column and block peers, which are the
\* other cells of a's row, column or block; and no engine call changes the
\* peer map.
C10_PeerTopology == [](PeersOk) /\ [][peers' = peers]_vars

C10_Witness ==
    /\ nOps > 0
    /\ choices # FreshChoices(n_row, n_col)
    /\ \E a, b \in DOMAIN peers :
          b \in peers[a] /\ a \div n_col # b \div n_col /\ a % n_col # b % n_col

\* C11: in every reachable candidate store, assign_value(cell, v) with v not
\* among cell's candidates returns failure and leaves every candidate list
\* as it was.
C11_AssignAbsentFails ==
    \A c \in DOMAIN choices : \A v \in 1..n_col :
        v \notin Range(choices[c]) =>
            AssignValue(choices, c, v) = [ret |-> FALSE, choices |-> choices]

C11_Witness ==
    /\ nOps > 0
    /\ \E c \in DOMAIN choices : \E v \in 1..n_col :
          /\ v \notin Range(choices[c])
          /\ Len(choices[c]) > 1
          /\ ~AssignValue(choices, c, v).ret

\* C12: no step of the engine adds a candidate: across every step of every
\* assign_value / cull_choices call, top-level or recursive, succeeding or
\* failing, each cell's candidates after the step are among its candidates
\* before the step.
C12_CandidatesOnlyShrink ==
    [][\A c \in DOMAIN choices : Range(choices'[c]) \subseteq Range(choices[c])]_vars

\* a failure on its way up through a recursion that has removed candidates
C12_Witness ==
    /\ Len(stack) >= 3
    /\ result = "False"
    /\ Total(choices) < stack[Len(stack)].tot
    /\ nOps > 1

\* the rows, columns and blocks of every shape the loader accepts
UnitsOf == [n \in ValidDims |-> Units(n)]

\* C13: in every candidate store reached from the fresh store by top-level
\* assign_value calls that each returned success, a cell with exactly one
\* candidate v has no peer with v among its candidates; so no two peers are
\* fixed to the same value.
C13_GlobalUniqueness ==
    pc = "assigning" =>
        \A c \in DOMAIN choices :
            Len(choices[c]) = 1 =>
                \A p \in peers[c] : choices[c][1] \notin Range(choices[p])

\* several cells are fixed, one of them by propagation alone
C13_Witness ==
    /\ pc = "assigning"
    /\ Cardinality({c \in DOMAIN choices : Len(choices[c]) = 1}) >= 3
    /\ \E c \in DOMAIN choices : c \notin AssignCells /\ Len(choices[c]) = 1

\* C14: in every candidate store reached from the fresh store by top-level
\* assign_value calls that each returned success, every value is a
\* candidate of at least one cell of every row, column and block, and a
\* value that is a candidate of exactly one cell of a unit is that cell's
\* only candidate.
C14_HiddenSingleFixedPoint ==
    pc = "assigning" =>
        \A U \in UnitsOf[n_col] : \A v \in 1..n_col :
            LET spots == {c \in U : v \in Range(choices[c])}
            IN /\ spots # {}
               /\ Cardinality(spots) = 1 => \A c \in spots : choices[c] = <<v>>

\* a cell outside the assigned ones is fixed though none of its row peers is
C14_Witness ==
    /\ pc = "assigning"
    /\ \E c \in DOMAIN choices :
          /\ c \notin AssignCells
          /\ Len(choices[c]) = 1
          /\ \A p \in Range(FindRowPeers(n_col, c)) : Len(choices[p]) > 1

\* every cell has a candidate
NonEmpty == \A c \in DOMAIN choices : Len(choices[c]) >= 1

\* the innermost call is a cull_choices just made, asked for its cell's
\* sole candidate
SoleAsked ==
    /\ stack # <<>>
    /\ Head(stack).fn = "cull_choices"
    /\ Head(stack).at = "enter"
    /\ choices[Head(stack).ind] = <<Head(stack).val>>

\* C15: in every state of the engine, between calls as within them and
\* after a refused call as after a successful one, every cell has at least
\* one candidate; and a cull_choices asked to remove a cell's sole
\* candidate returns failure and removes nothing.
C15_NeverEmpty ==
    /\ [](NonEmpty)
    /\ [][SoleAsked => (choices' = choices /\ result' = "False" /\ stack' = Tail(stack))]_vars

\* a collapsed cell's peer has just refused to give up its sole candidate
C15_Witness ==
    /\ stack # <<>>
    /\ result = "False"
    /\ Head(stack).at = "peers"
    /\ LET all == IterOrder(peers[Head(stack).ind])
           last == all[Len(all) - Len(Head(stack).peer_it)]
       IN choices[last] = <<Head(stack).best_val>>

\* the number of candidates goes down along the recursion: no call in
\* progress has seen the store grow, a cull_choices past its early returns
\* has removed a candidate, and so has every cull_choices in progress
\* before any call it made
MeasureOk ==
    \A j \in 1..Len(stack) :
        /\ Total(choices) <= stack[j].tot
        /\ (stack[j].fn = "cull_choices" /\ stack[j].at # "enter") =>
              Total(choices) < stack[j].tot
        /\ \A k \in (j+1)..Len(stack) :
              /\ stack[j].tot <= stack[k].tot
              /\ stack[k].fn = "cull_choices" => stack[j].tot < stack[k].tot

\* C17: every top-level assign_value or cull_choices call, with all the
\* calls it makes, returns; and the number of candidates in the store
\* strictly decreases along the recursion, every cull_choices that does not
\* return at once having removed a candidate before it calls anything.
C17_PropagationTerminates ==
    /\ [](MeasureOk)
    /\ (stack # <<>>) ~> (stack = <<>> /\ result \in {"True", "False"})

\* one call has returned after a recursion that removed many candidates
C17_Witness ==
    /\ nOps = 1
    /\ stack = <<>>
    /\ result = "True"
    /\ Total(choices) + 10 <= Total(FreshChoices(n_row, n_col))

\* seeding went through every clue and main has read the grid back
ReadBack ==
    \/ pc \in {"check", "final"}
    \/ pc = "exit" /\ clues # <<>> /\ ~Reported("conflict")

\* C18: after a seeding that succeeded and update_grid_values, every clue
\* cell holds its clue, every cell with a single candidate holds that
\* candidate, and every other cell holds 0.
C18_GridReadBack ==
    ReadBack =>
        \A i \in DOMAIN values :
            /\ clues[i] # 0 => values[i] = clues[i]
            /\ Len(choices[i]) = 1 => values[i] = choices[i][1]
            /\ Len(choices[i]) # 1 => values[i] = 0

\* a grid read back with clue cells, cells fixed by propagation and cells
\* still open
C18_Witness ==
    /\ pc = "exit"
    /\ ReadBack
    /\ \E i \in DOMAIN values : clues[i] # 0
    /\ \E i \in DOMAIN values : clues[i] = 0 /\ values[i] # 0
    /\ \E i \in DOMAIN values : values[i] = 0 /\ Len(choices[i]) > 1

\* every solved grid of every shape the loader accepts
SolvedOf == [n \in ValidDims |-> SolvedGrids(n)]

\* the solved grids that carry every clue
Solutions ==
    IF clues = <<>> THEN {}
    ELSE {S \in SolvedOf[n_col] : \A i \in DOMAIN clues : clues[i] = 0 \/ clues[i] = S[i]}

\* C16: when the clues agree with a solved grid S, no seeding call returns
\* failure and, after every seeding call, S[c] is still a candidate of every
\* cell c: propagation eliminates no value of a solution.
C16_PropagationSound ==
    \A S \in Solutions :
        /\ ~Reported("conflict")
        /\ lastOp.op = "assign" => lastOp.ret
        /\ \A c \in DOMAIN choices : S[c] \in Range(choices[c])

\* clues that several solved grids carry have all been seeded, and some
\* open cell has lost candidates
C16_Witness ==
    /\ pc = "exit"
    /\ Cardinality(Solutions) >= 2
    /\ Cardinality({i \in DOMAIN clues : clues[i] # 0}) >= 4
    /\ \E c \in DOMAIN choices : Len(choices[c]) > 1 /\ Len(choices[c]) < n_col

====
